---- MODULE Spec2Model ----
(***************************************************************************)
(* quicksql: dynamic Records over an SQL executor.                         *)
(*                                                                         *)
(* The model follows the latest revision of the library                    *)
(* (src/unnamed/part_000): Record (values map[string][]byte, pk,           *)
(* tableName, autoIncrement), the session options, Session.Select /        *)
(* Create / Save / Delete and the typed getters.  The executor             *)
(* (SqlInterface, database/sql) is external; it is modelled either as a    *)
(* stub that answers with a canned result, or as one table of rows.        *)
(*                                                                         *)
(* Texts are sequences of one-character strings, so that 64-bit decimal    *)
(* numbers are handled digit by digit at their full width.                 *)
(***************************************************************************)
EXTENDS Integers, Sequences, FiniteSets, TLC

VARIABLES
    rec,     \* the Record the caller holds
    db,      \* the executor behind the Session
    last,    \* the last call: operation, input, error, Exec calls, outputs
    origin   \* history: how the caller obtained rec

vars == <<rec, db, last, origin>>

(***************************************************************************)
(* Bounds of the model.                                                    *)
(***************************************************************************)
\* most options passed to one call, in the specification of the options
MaxOptions == 3

\* most rows of the table the executor starts with, and of a result set
MaxRows == 2

(***************************************************************************)
(* Errors.  The six library errors of the var block, plus the errors the   *)
(* library passes through: strconv's *NumError (syntax, range) and the     *)
(* executor's error.                                                       *)
(***************************************************************************)
NoError == "nil"
ErrNullValue == "ErrNullValue"
ErrInvalidColumn == "ErrInvalidColumn"
ErrUnsupportedValue == "ErrUnsupportedValue"
ErrPrimaryKeyNotSet == "ErrPrimaryKeyNotSet"
ErrPrimaryKeyInvalid == "ErrPrimaryKeyInvalid"
ErrTableNotSet == "ErrTableNotSet"
ErrSyntax == "strconv.ErrSyntax"
ErrRange == "strconv.ErrRange"
ErrBackend == "backend error"

LibraryErrors == {ErrNullValue, ErrInvalidColumn, ErrUnsupportedValue,
                  ErrPrimaryKeyNotSet, ErrPrimaryKeyInvalid, ErrTableNotSet}

(***************************************************************************)
(* Texts and 64-bit integers.                                              *)
(***************************************************************************)
Digits == {"0", "1", "2", "3", "4", "5", "6", "7", "8", "9"}

DigitVal(c) ==
    CASE c = "0" -> 0 [] c = "1" -> 1 [] c = "2" -> 2 [] c = "3" -> 3
      [] c = "4" -> 4 [] c = "5" -> 5 [] c = "6" -> 6 [] c = "7" -> 7
      [] c = "8" -> 8 [] c = "9" -> 9

\* digit strings without leading zeros, compared as numbers
RECURSIVE LexLeq(_, _)
LexLeq(a, b) ==
    IF a = <<>> THEN TRUE
    ELSE IF DigitVal(Head(a)) # DigitVal(Head(b))
         THEN DigitVal(Head(a)) < DigitVal(Head(b))
         ELSE LexLeq(Tail(a), Tail(b))

MagLeq(a, b) ==
    IF Len(a) # Len(b) THEN Len(a) < Len(b) ELSE LexLeq(a, b)

RECURSIVE StripZeros(_)
StripZeros(s) ==
    IF Len(s) > 1 /\ Head(s) = "0" THEN StripZeros(Tail(s)) ELSE s

\* 1<<63 - 1, 1<<63 and 1<<64 - 1 in decimal
MaxInt64Mag ==
    <<"9","2","2","3","3","7","2","0","3","6","8","5","4","7","7","5","8","0","7">>
MinInt64Mag ==
    <<"9","2","2","3","3","7","2","0","3","6","8","5","4","7","7","5","8","0","8">>
MaxUint64Mag ==
    <<"1","8","4","4","6","7","4","4","0","7","3","7","0","9","5","5","1","6","1","5">>

\* an integer: sign and magnitude (decimal digits, no leading zeros)
Num(neg, mag) == [neg |-> neg, mag |-> mag]
Zero == Num(FALSE, <<"0">>)

IsInt64(n) ==
    IF n.neg THEN MagLeq(n.mag, MinInt64Mag) ELSE MagLeq(n.mag, MaxInt64Mag)

\* (variant: the sign is not written)
FormatInt_NoSign(n) == n.mag

\* fmt.Sprintf("%v", n) of an integer: decimal, "-" for negatives
FormatInt(n) == IF n.neg THEN <<"-">> \o n.mag ELSE n.mag

AllDigits(s) == \A i \in 1..Len(s) : s[i] \in Digits

\* strconv.ParseUint(s, 10, 64): digits only, no sign, at most 1<<64 - 1
ParseUint(s) ==
    IF s = <<>> \/ ~AllDigits(s) THEN [err |-> ErrSyntax, val |-> Zero]
    ELSE IF ~MagLeq(StripZeros(s), MaxUint64Mag)
         THEN [err |-> ErrRange, val |-> Zero]
         ELSE [err |-> NoError, val |-> Num(FALSE, StripZeros(s))]

\* strconv.ParseInt(s, 10, 64): optional sign, digits, within the int64 range
ParseInt(s) ==
    LET signed == s # <<>> /\ Head(s) \in {"+", "-"}
        neg == s # <<>> /\ Head(s) = "-"
        body == IF signed THEN Tail(s) ELSE s
        mag == StripZeros(body)
    IN IF body = <<>> \/ ~AllDigits(body) THEN [err |-> ErrSyntax, val |-> Zero]
       ELSE IF ~MagLeq(mag, IF neg THEN MinInt64Mag ELSE MaxInt64Mag)
            THEN [err |-> ErrRange, val |-> Zero]
            ELSE [err |-> NoError, val |-> Num(neg /\ mag # <<"0">>, mag)]

(***************************************************************************)
(* Values.  A cell of Record.values is a []byte: nil or a byte sequence.   *)
(* A Go value handed to Set or to the executor is a tagged value.          *)
(***************************************************************************)
NilBytes == [null |-> TRUE, bytes |-> <<>>]
Bytes(s) == [null |-> FALSE, bytes |-> s]

GoValue(type, s, b, n) == [type |-> type, s |-> s, b |-> b, n |-> n]
GoNil == GoValue("nil", <<>>, NilBytes, Zero)
GoString(s) == GoValue("string", s, NilBytes, Zero)
GoBytes(c) == GoValue("bytes", <<>>, c, Zero)
GoInt64(n) == GoValue("int64", <<>>, NilBytes, n)

(***************************************************************************)
(* Session options and the session context.                                *)
(***************************************************************************)
Option(kind, pk, args, name) == [kind |-> kind, pk |-> pk, args |-> args, name |-> name]

PrimaryKeyOption(pk) == Option("PrimaryKeyOption", pk, <<>>, "")
AutoIncrementOption == Option("AutoIncrementOption", <<>>, <<>>, "")
ArgsOption(args) == Option("ArgsOption", <<>>, args, "")
TableOption(name) == Option("TableOption", <<>>, <<>>, name)

\* the context Select and NewRecord start from
sessionContext == [args |-> <<>>, pk |-> <<>>, tableName |-> "", autoIncrement |-> FALSE]

\* (variant: a table name that is set is kept)
ApplyOption_KeepsTable(ctx, option) ==
    CASE option.kind = "PrimaryKeyOption" -> [ctx EXCEPT !.pk = option.pk]
      [] option.kind = "AutoIncrementOption" -> [ctx EXCEPT !.autoIncrement = TRUE]
      [] option.kind = "ArgsOption" -> [ctx EXCEPT !.args = option.args]
      [] option.kind = "TableOption" ->
            IF ctx.tableName = "" THEN [ctx EXCEPT !.tableName = option.name] ELSE ctx

\* one option called on the context
ApplyOption(ctx, option) ==
    CASE option.kind = "PrimaryKeyOption" -> [ctx EXCEPT !.pk = option.pk]
      [] option.kind = "AutoIncrementOption" -> [ctx EXCEPT !.autoIncrement = TRUE]
      [] option.kind = "ArgsOption" -> [ctx EXCEPT !.args = option.args]
      [] option.kind = "TableOption" -> [ctx EXCEPT !.tableName = option.name]

\* for _, option := range options { option(ctx) }
RECURSIVE ApplyOptions(_, _)
ApplyOptions(ctx, options) ==
    IF options = <<>> THEN ctx
    ELSE ApplyOptions(ApplyOption(ctx, Head(options)), Tail(options))

(***************************************************************************)
(* Record.                                                                 *)
(***************************************************************************)
NoValues == [n \in {} |-> NilBytes]

NewRecord(options) ==
    LET ctx == ApplyOptions(sessionContext, options)
    IN [values |-> NoValues, pk |-> ctx.pk, tableName |-> ctx.tableName,
        autoIncrement |-> ctx.autoIncrement]

Fields(r) == DOMAIN r.values

\* the []byte a value is stored as
SetCell(value) ==
    CASE value.type = "string" -> Bytes(value.s)
      [] value.type = "bytes" -> value.b
      [] value.type = "nil" -> NilBytes
      [] OTHER -> Bytes(FormatInt(value.n))

\* (variant: the other fields are dropped)
Set_OnlyField(r, name, value) ==
    [r EXCEPT !.values = [n \in {name} |-> SetCell(value)]]

\* (variant: a name that has an entry keeps it)
Set_KeepsExisting(r, name, value) ==
    [r EXCEPT !.values = [n \in DOMAIN r.values \cup {name} |->
                             IF n \in DOMAIN r.values THEN r.values[n] ELSE SetCell(value)]]

Set(r, name, value) ==
    [r EXCEPT !.values = [n \in DOMAIN r.values \cup {name} |->
                             IF n = name THEN SetCell(value) ELSE r.values[n]]]

\* (variant: an empty value reads as null)
String_EmptyIsNull(r, name) ==
    IF name \notin DOMAIN r.values THEN [err |-> ErrInvalidColumn, val |-> <<>>]
    ELSE IF r.values[name].null \/ r.values[name].bytes = <<>>
         THEN [err |-> ErrNullValue, val |-> <<>>]
    ELSE [err |-> NoError, val |-> r.values[name].bytes]

String(r, name) ==
    IF name \notin DOMAIN r.values THEN [err |-> ErrInvalidColumn, val |-> <<>>]
    ELSE IF r.values[name].null THEN [err |-> ErrNullValue, val |-> <<>>]
    ELSE [err |-> NoError, val |-> r.values[name].bytes]

UInt64(r, name) ==
    IF name \notin DOMAIN r.values THEN [err |-> ErrInvalidColumn, val |-> Zero]
    ELSE IF r.values[name].null THEN [err |-> ErrNullValue, val |-> Zero]
    ELSE ParseUint(r.values[name].bytes)

\* (variant: a null value reads as zero)
Int64_NullIsZero(r, name) ==
    IF name \notin DOMAIN r.values THEN [err |-> ErrInvalidColumn, val |-> Zero]
    ELSE IF r.values[name].null THEN [err |-> NoError, val |-> Zero]
    ELSE ParseInt(r.values[name].bytes)

Int64(r, name) ==
    IF name \notin DOMAIN r.values THEN [err |-> ErrInvalidColumn, val |-> Zero]
    ELSE IF r.values[name].null THEN [err |-> ErrNullValue, val |-> Zero]
    ELSE ParseInt(r.values[name].bytes)

\* (variant: the primary key is not checked)
validate_NoPrimaryKeyCheck(record) ==
    IF record.tableName = "" THEN ErrTableNotSet ELSE NoError

\* (variant: the table name is not checked)
validate_NoTableCheck(record) ==
    IF Len(record.pk) = 0 THEN ErrPrimaryKeyNotSet ELSE NoError

validateRecordForUpdateOrDelete(record) ==
    IF record.tableName = "" THEN ErrTableNotSet
    ELSE IF Len(record.pk) = 0 THEN ErrPrimaryKeyNotSet
    ELSE NoError

(***************************************************************************)
(* The executor (SqlInterface).  A statement the Session builds is kept    *)
(* by its parts: verb, table, the columns of the SET / column list, the    *)
(* number of "?" of the VALUES list, the columns of the WHERE clause and   *)
(* the row bound (0: none).                                                *)
(*                                                                         *)
(* db.table = FALSE is a stub executor: it runs no statement, answers      *)
(* Exec with what `ans` says and serves reads from canned rows.            *)
(* db.table = TRUE is the table TableName with the columns Columns, its    *)
(* rows in db.rows.                                                        *)
(***************************************************************************)
Names == {"id", "grp", "name"}
Columns == Names
TableName == "t"

Statement(verb, table, cols, marks, where, limit) ==
    [verb |-> verb, table |-> table, cols |-> cols, marks |-> marks,
     where |-> where, limit |-> limit]

Range(s) == {s[i] : i \in 1..Len(s)}

\* the executor's answer: whether the call fails, and the identifier
\* sql.Result.LastInsertId reports, if it can report one; `cut`: the rows of
\* a read break off (rows.Next() returns false before the last row and
\* rows.Err() holds the error)
Answer(fail, hasId, id) == [fail |-> fail, hasId |-> hasId, id |-> id, cut |-> FALSE]
NoAnswer == Answer(FALSE, FALSE, Num(FALSE, <<"0">>))

\* WHERE c1 = ? AND c2 = ? ...: NULL equals nothing
Matches(row, where, wargs) ==
    \A i \in 1..Len(where) : ~wargs[i].null /\ row[where[i]] = wargs[i]

\* the indices of the rows a statement touches: the first `limit` matching
\* rows, all of them without a row bound
RECURSIVE Touched(_, _, _, _, _)
Touched(rows, where, wargs, limit, from) ==
    IF from > Len(rows) THEN {}
    ELSE IF Matches(rows[from], where, wargs)
         THEN {from} \cup (IF limit = 1 THEN {}
                            ELSE Touched(rows, where, wargs,
                                         IF limit = 0 THEN 0 ELSE limit - 1, from + 1))
         ELSE Touched(rows, where, wargs, limit, from + 1)

Assign(row, cols, args) ==
    [c \in Columns |->
        IF \E i \in 1..Len(cols) : cols[i] = c
        THEN args[CHOOSE i \in 1..Len(cols) : cols[i] = c /\ \A j \in (i+1)..Len(cols) : cols[j] # c]
        ELSE row[c]]

RECURSIVE Remove(_, _, _)
Remove(rows, idx, from) ==
    IF from > Len(rows) THEN <<>>
    ELSE (IF from \in idx THEN <<>> ELSE <<rows[from]>>) \o Remove(rows, idx, from + 1)

\* statements the table cannot run
Malformed(stmt, args) ==
    \/ stmt.table # TableName
    \/ ~(Range(stmt.cols) \subseteq Columns)
    \/ ~(Range(stmt.where) \subseteq Columns)
    \/ stmt.verb = "INSERT" /\ (stmt.marks # Len(stmt.cols) \/ Len(args) # stmt.marks)
    \/ stmt.verb = "UPDATE" /\ (stmt.cols = <<>> \/ Len(args) # Len(stmt.cols) + Len(stmt.where))
    \/ stmt.verb = "DELETE" /\ Len(args) # Len(stmt.where)
    \/ stmt.verb # "INSERT" /\ stmt.where = <<>>

TableExec(rows, stmt, args) ==
    LET nset == Len(stmt.cols)
        wargs == SubSeq(args, nset + 1, Len(args))
        hit == Touched(rows, stmt.where, wargs, stmt.limit, 1)
    IN CASE stmt.verb = "INSERT" ->
              Append(rows, Assign([c \in Columns |-> NilBytes], stmt.cols, args))
         [] stmt.verb = "UPDATE" ->
              [i \in 1..Len(rows) |->
                  IF i \in hit THEN Assign(rows[i], stmt.cols, args) ELSE rows[i]]
         [] stmt.verb = "DELETE" ->
              Remove(rows, Touched(rows, stmt.where, args, stmt.limit, 1), 1)

\* db.Exec(query, args...)
Exec(d, stmt, args, ans) ==
    IF ans.fail \/ (d.table /\ Malformed(stmt, args))
    THEN [err |-> ErrBackend, db |-> d, hasId |-> FALSE, id |-> Zero]
    ELSE [err |-> NoError,
          db |-> IF d.table THEN [d EXCEPT !.rows = TableExec(d.rows, stmt, args)] ELSE d,
          hasId |-> ans.hasId, id |-> ans.id]

\* A read statement: the columns it projects, the names it reports for them
\* and the columns its WHERE clause binds to the arguments.  The stub serves
\* reads from its canned rows.
ReadQuery(proj, names, where) == [proj |-> proj, names |-> names, where |-> where]
NoQuery == ReadQuery(<<>>, <<>>, <<>>)

RECURSIVE Project(_, _)
Project(row, proj) ==
    IF proj = <<>> THEN <<>>
    ELSE <<IF row[Head(proj)].null THEN GoNil ELSE GoBytes(row[Head(proj)])>>
         \o Project(row, Tail(proj))

RECURSIVE Matching(_, _, _)
Matching(rows, where, wargs) ==
    IF rows = <<>> THEN <<>>
    ELSE (IF Matches(Head(rows), where, wargs) THEN <<Head(rows)>> ELSE <<>>)
         \o Matching(Tail(rows), where, wargs)

\* db.Query(query, args...): the column names and the scanned rows
Query(d, query, args, ans) ==
    IF ans.fail \/ Len(args) # Len(query.where)
    THEN [err |-> ErrBackend, cols |-> <<>>, rows |-> <<>>, rowsErr |-> NoError]
    ELSE LET found == Matching(d.rows, query.where, args)
             sent == IF ans.cut /\ found # <<>> THEN SubSeq(found, 1, Len(found) - 1)
                     ELSE found
         IN [err |-> NoError, cols |-> query.names,
             rows |-> [i \in 1..Len(sent) |-> Project(sent[i], query.proj)],
             rowsErr |-> IF ans.cut THEN ErrBackend ELSE NoError]

(***************************************************************************)
(* Session.  Each operation yields its error, the Exec calls it made, the  *)
(* Record and the executor as it leaves them.  `order` is the order in     *)
(* which `range record.values` visits the fields (any order).              *)
(***************************************************************************)
RECURSIVE Orders(_)
Orders(S) ==
    IF S = {} THEN {<<>>}
    ELSE UNION {{<<n>> \o o : o \in Orders(S \ {n})} : n \in S}

Result(err, calls, record, d) == [err |-> err, calls |-> calls, rec |-> record, db |-> d]

Call(stmt, args) == [stmt |-> stmt, args |-> args]

\* record.values[name]: nil for a name without entry
CellOf(record, name) ==
    IF name \in DOMAIN record.values THEN record.values[name] ELSE NilBytes

\* the values of the fields, in the order given
ValuesOf(record, fields) == [i \in 1..Len(fields) |-> CellOf(record, fields[i])]

\* (variant: a NULL column sets no field)
RECURSIVE SetColumns_SkipNull(_, _, _)
SetColumns_SkipNull(record, colNames, cols) ==
    IF cols = <<>> THEN record
    ELSE SetColumns_SkipNull(IF Head(cols).type = "nil" THEN record
                             ELSE Set(record, Head(colNames), Head(cols)),
                             Tail(colNames), Tail(cols))

\* the Record of one scanned row
RECURSIVE SetColumns(_, _, _)
SetColumns(record, colNames, cols) ==
    IF cols = <<>> THEN record
    ELSE SetColumns(Set(record, Head(colNames), Head(cols)), Tail(colNames), Tail(cols))

RowRecord(ctx, colNames, cols) ==
    SetColumns(NewRecord(<<TableOption(ctx.tableName), PrimaryKeyOption(ctx.pk)>>),
               colNames, cols)

\* (the loop ends when rows.Next() returns false; rows.Err() is not read)
Select(query, options, d, ans) ==
    LET selectCtx == ApplyOptions(sessionContext, options)
        res == Query(d, query, selectCtx.args, ans)
    IN IF res.err # NoError
       THEN [err |-> res.err, records |-> <<>>, calls |-> <<Call(query, selectCtx.args)>>]
       ELSE [err |-> NoError, calls |-> <<Call(query, selectCtx.args)>>,
             records |-> [i \in 1..Len(res.rows) |->
                             RowRecord(selectCtx, res.cols, res.rows[i])]]

\* (variant: the column list is built by a second, independent pass over the map)
CreateQuery_SecondPass(record, order) ==
    Statement("INSERT", record.tableName, [i \in 1..Len(order) |-> order[Len(order) + 1 - i]],
              Len(ValuesOf(record, order)), <<>>, 0)

CreateQuery(record, order) ==
    Statement("INSERT", record.tableName, order, Len(ValuesOf(record, order)), <<>>, 0)

\* (variant: the identifier is captured for a composite key too)
CaptureId_AnyKey(record, res) ==
    IF Len(record.pk) >= 1 /\ record.autoIncrement
    THEN IF res.hasId THEN Set(record, record.pk[1], GoInt64(res.id)) ELSE record
    ELSE record

\* the generated identifier read into the primary-key field
CaptureId(record, res) ==
    IF Len(record.pk) = 1 /\ record.autoIncrement
    THEN IF res.hasId THEN Set(record, record.pk[1], GoInt64(res.id)) ELSE record
    ELSE record

Create(record, order, d, ans) ==
    IF record.tableName = "" THEN Result(ErrTableNotSet, <<>>, record, d)
    ELSE LET query == CreateQuery(record, order)
             args == ValuesOf(record, order)
             res == Exec(d, query, args, ans)
         IN IF res.err # NoError
            THEN Result(res.err, <<Call(query, args)>>, record, d)
            ELSE Result(NoError, <<Call(query, args)>>, CaptureId(record, res), res.db)

\* (variant: the statement carries no row bound)
SaveQuery_NoLimit(record, order) ==
    Statement("UPDATE", record.tableName, order, 0, record.pk, 0)

SaveQuery(record, order) ==
    Statement("UPDATE", record.tableName, order, 0, record.pk, 1)

\* (variant: the WHERE arguments are not taken from the Record)
SaveArgs_NullKey(record, order) ==
    ValuesOf(record, order) \o [i \in 1..Len(record.pk) |-> NilBytes]

\* (variant: the primary key's values are bound first)
SaveArgs_KeyFirst(record, order) == ValuesOf(record, record.pk) \o ValuesOf(record, order)

\* the arguments of Save: the fields' values, then the primary key's values
SaveArgs(record, order) == ValuesOf(record, order) \o ValuesOf(record, record.pk)

\* (variant: a null value counts as no entry)
HasPrimaryKey_NotNull(record) ==
    \A i \in 1..Len(record.pk) :
       record.pk[i] \in DOMAIN record.values /\ ~record.values[record.pk[i]].null

\* (variant: only the first primary-key field is looked up)
HasPrimaryKey_FirstOnly(record) == record.pk[1] \in DOMAIN record.values

\* every primary-key field has an entry in record.values
HasPrimaryKey(record) == \A i \in 1..Len(record.pk) : record.pk[i] \in DOMAIN record.values

Save(record, order, d, ans) ==
    IF validateRecordForUpdateOrDelete(record) # NoError
    THEN Result(validateRecordForUpdateOrDelete(record), <<>>, record, d)
    ELSE IF ~HasPrimaryKey(record) THEN Result(ErrPrimaryKeyInvalid, <<>>, record, d)
    ELSE LET query == SaveQuery(record, order)
             args == SaveArgs(record, order)
             res == Exec(d, query, args, ans)
         IN Result(res.err, <<Call(query, args)>>, record, res.db)

DeleteQuery(record) ==
    Statement("DELETE", record.tableName, <<>>, 0, record.pk, 1)

\* (variant: the key's values are bound last to first)
DeleteArgs_Reversed(record) ==
    [i \in 1..Len(record.pk) |-> CellOf(record, record.pk[Len(record.pk) + 1 - i])]

\* the arguments of Delete: the primary key's values
DeleteArgs(record) == ValuesOf(record, record.pk)

Delete(record, d, ans) ==
    IF validateRecordForUpdateOrDelete(record) # NoError
    THEN Result(validateRecordForUpdateOrDelete(record), <<>>, record, d)
    ELSE IF ~HasPrimaryKey(record) THEN Result(ErrPrimaryKeyInvalid, <<>>, record, d)
    ELSE LET query == DeleteQuery(record)
             args == DeleteArgs(record)
             res == Exec(d, query, args, ans)
         IN Result(res.err, <<Call(query, args)>>, record, res.db)

(***************************************************************************)
(* The caller.  One action per library call; `last` keeps what the call    *)
(* was given and what it returned.                                         *)
(***************************************************************************)
Last(op, arg, err, calls, out, val) ==
    [op |-> op, arg |-> arg, err |-> err, calls |-> calls, out |-> out, val |-> val]

\* what a call was given: its options, the executor's answer, a field name,
\* the index of the row the caller goes on with, the value to set
Arg(options, ans, name, index) ==
    [options |-> options, ans |-> ans, name |-> name, index |-> index, value |-> GoNil,
     query |-> NoQuery]

\* what a getter returned: a text or a number
Val(text, num) == [text |-> text, num |-> num]
NoVal == Val(<<>>, Num(FALSE, <<"0">>))

Origin(op, options) ==
    [op |-> op,
     table |-> \E i \in 1..Len(options) : options[i].kind = "TableOption",
     pk |-> \E i \in 1..Len(options) : options[i].kind = "PrimaryKeyOption"]

CallNewRecord(options) ==
    /\ rec' = NewRecord(options)
    /\ last' = Last("NewRecord", Arg(options, NoAnswer, "", 0), NoError, <<>>, <<>>, NoVal)
    /\ origin' = Origin("NewRecord", options)
    /\ UNCHANGED db

CallSet(name, value) ==
    /\ rec' = Set(rec, name, value)
    /\ last' = Last("Set", [Arg(<<>>, NoAnswer, name, 0) EXCEPT !.value = value], NoError,
                  <<>>, <<>>, NoVal)
    /\ UNCHANGED <<db, origin>>

\* rows, err := session.Select(query, options...); record := rows[i - 1]
\* (the caller keeps the Record it holds when there is no such row)
CallSelect(query, options, ans, i) ==
    \E res \in {Select(query, options, db, ans)} :
       /\ last' = Last("Select", [Arg(options, ans, "", i) EXCEPT !.query = query], res.err,
                        res.calls, res.records, NoVal)
       /\ IF i \in 1..Len(res.records)
          THEN rec' = res.records[i] /\ origin' = Origin("Select", options)
          ELSE UNCHANGED <<rec, origin>>
       /\ UNCHANGED db

CallCreate(order, ans) ==
    \E res \in {Create(rec, order, db, ans)} :
       /\ rec' = res.rec
       /\ db' = res.db
       /\ last' = Last("Create", Arg(<<>>, ans, "", 0), res.err, res.calls, <<>>, NoVal)
       /\ UNCHANGED origin

CallSave(order, ans) ==
    \E res \in {Save(rec, order, db, ans)} :
       /\ rec' = res.rec
       /\ db' = res.db
       /\ last' = Last("Save", Arg(<<>>, ans, "", 0), res.err, res.calls, <<>>, NoVal)
       /\ UNCHANGED origin

CallDelete(ans) ==
    \E res \in {Delete(rec, db, ans)} :
       /\ rec' = res.rec
       /\ db' = res.db
       /\ last' = Last("Delete", Arg(<<>>, ans, "", 0), res.err, res.calls, <<>>, NoVal)
       /\ UNCHANGED origin

CallString(name) ==
    /\ last' = Last("String", Arg(<<>>, NoAnswer, name, 0), String(rec, name).err, <<>>, <<>>,
                     Val(String(rec, name).val, Zero))
    /\ UNCHANGED <<rec, db, origin>>

CallInt64(name) ==
    /\ last' = Last("Int64", Arg(<<>>, NoAnswer, name, 0), Int64(rec, name).err, <<>>, <<>>,
                     Val(<<>>, Int64(rec, name).val))
    /\ UNCHANGED <<rec, db, origin>>

CallUInt64(name) ==
    /\ last' = Last("UInt64", Arg(<<>>, NoAnswer, name, 0), UInt64(rec, name).err, <<>>, <<>>,
                     Val(<<>>, UInt64(rec, name).val))
    /\ UNCHANGED <<rec, db, origin>>

(***************************************************************************)
(* Inputs.                                                                 *)
(***************************************************************************)
Text1 == <<"1">>
Text2 == <<"2">>
Text3 == <<"3">>

Row(id, grp, name) == [c \in Columns |->
    IF c = "id" THEN id ELSE IF c = "grp" THEN grp ELSE name]

\* the options of a call, in the README's order: ArgsOption if any, then
\* the others; "-" and <<"-">> stand for an option that is not passed
OptionList(args, table, pk, auto) ==
    args
    \o (IF table = "-" THEN <<>> ELSE <<TableOption(table)>>)
    \o (IF pk = <<"-">> THEN <<>> ELSE <<PrimaryKeyOption(pk)>>)
    \o (IF auto THEN <<AutoIncrementOption>> ELSE <<>>)

OptionLists ==
    {OptionList(<<>>, t, pk, a) :
        t \in {"-", TableName}, pk \in {<<"-">>, <<"id">>, <<"grp", "id">>}, a \in BOOLEAN}
    \cup {OptionList(<<>>, "", <<>>, FALSE)}

\* generated identifiers the executor reports
GenIds == {Num(FALSE, <<"7">>), Num(TRUE, MinInt64Mag)}

Failure == Answer(TRUE, FALSE, Zero)
Success == Answer(FALSE, FALSE, Zero)
\* a read whose rows break off
Broken == [Success EXCEPT !.cut = TRUE]

Answers == {Failure, Success} \cup {Answer(FALSE, TRUE, n) : n \in GenIds}

SetInputs ==
    {<<"id", GoString(Text1)>>, <<"id", GoNil>>, <<"grp", GoBytes(Bytes(Text2))>>,
     <<"name", GoString(Text3)>>, <<"name", GoNil>>}

\* the stub's canned rows
StubRows == <<Row(Bytes(Text1), Bytes(Text2), Bytes(Text3)),
              Row(Bytes(Text1), Bytes(Text2), NilBytes)>>

Queries ==
    {ReadQuery(<<"id", "grp", "name">>, <<"id", "grp", "name">>, <<>>),
     ReadQuery(<<"id", "name">>, <<"id", "name">>, <<>>)}

SelectOptionLists ==
    {<<>>, OptionList(<<>>, TableName, <<"-">>, FALSE),
     OptionList(<<>>, "-", <<"id">>, TRUE),
     OptionList(<<>>, TableName, <<"id">>, FALSE),
     OptionList(<<>>, TableName, <<"grp", "id">>, TRUE)}

\* the Select calls: every query with every option list, answered; one that
\* fails; one whose rows break off
SelectInputs ==
    {<<q, o, Success>> : q \in Queries, o \in SelectOptionLists}
    \cup {<<q, <<>>, Failure>> : q \in Queries}
    \cup {<<ReadQuery(<<"id", "name">>, <<"id", "name">>, <<>>), <<>>, Broken>>}

(***************************************************************************)
(* Spec: the Session over the stub executor.                               *)
(***************************************************************************)
Init ==
    /\ rec = NewRecord(<<>>)
    /\ db = [table |-> FALSE, rows |-> StubRows]
    /\ last = Last("NewRecord", Arg(<<>>, NoAnswer, "", 0), NoError, <<>>, <<>>, NoVal)
    /\ origin = Origin("NewRecord", <<>>)

Next ==
    \/ \E options \in OptionLists : CallNewRecord(options)
    \/ \E in \in SetInputs : CallSet(in[1], in[2])
    \/ \E in \in SelectInputs, i \in 1..MaxRows : CallSelect(in[1], in[2], in[3], i)
    \/ \E order \in Orders(Fields(rec)), ans \in Answers : CallCreate(order, ans)
    \/ \E order \in Orders(Fields(rec)), ans \in {Failure, Success} : CallSave(order, ans)
    \/ \E ans \in {Failure, Success} : CallDelete(ans)

Spec == Init /\ [][Next]_vars

(***************************************************************************)
(* Properties of Save, Delete and Create over the stub executor (Spec).    *)
(***************************************************************************)
Mutation == {"Save", "Delete"}

\* C1 (as stated): Save on a Record whose primary key is empty fails with
\* PrimaryKeyNotSet and issues no Exec call, whatever the table name
\* (the empty one included) and the fields.
C1_SaveEmptyKeyAlwaysPrimaryKeyNotSet ==
    (last.op = "Save" /\ rec.pk = <<>>) =>
        (last.err = ErrPrimaryKeyNotSet /\ last.calls = <<>>)

\* C1 (amended): Save on a Record whose primary key is empty issues no Exec
\* call and fails: with PrimaryKeyNotSet when the table name is not empty,
\* with TableNotSet when it is empty (the table name is checked first).
C1_SaveEmptyKeyFails ==
    (last.op = "Save" /\ rec.pk = <<>>) =>
        /\ last.calls = <<>>
        /\ last.err = IF rec.tableName = "" THEN ErrTableNotSet ELSE ErrPrimaryKeyNotSet

C1_Witness ==
    /\ last.op = "Save" /\ rec.pk = <<>> /\ rec.tableName # ""
    /\ Fields(rec) # {} /\ last.err = ErrPrimaryKeyNotSet

\* C2: Save and Delete of a Record with a table name and a declared primary
\* key of which some field has no entry return PrimaryKeyInvalid, make no
\* Exec call and leave the Record (and the executor) as they were, whichever
\* position the missing field has in the key.
C2_MissingKeyFieldIsInvalid ==
    [][(/\ last'.op \in Mutation
        /\ rec.tableName # "" /\ rec.pk # <<>>
        /\ \E i \in 1..Len(rec.pk) : rec.pk[i] \notin Fields(rec))
       => (/\ last'.err = ErrPrimaryKeyInvalid
           /\ last'.calls = <<>>
           /\ rec' = rec /\ db' = db)]_vars

C2_Witness ==
    /\ last.op = "Delete" /\ last.err = ErrPrimaryKeyInvalid
    /\ Len(rec.pk) = 2 /\ rec.pk[1] \in Fields(rec) /\ rec.pk[2] \notin Fields(rec)

\* C3: an Exec call of Save or Delete is for a Record with a table name and a
\* primary key, an Exec call of Create for a Record with a table name; Save
\* and Delete of a Record that Select returned without TableOption or without
\* PrimaryKeyOption fail with TableNotSet or PrimaryKeyNotSet and make no
\* Exec call.
C3_ExecOnlyForEligibleRecords ==
    /\ (last.op \in Mutation /\ last.calls # <<>>) =>
          (rec.tableName # "" /\ rec.pk # <<>> /\ last.calls[1].stmt.table = rec.tableName)
    /\ (last.op = "Create" /\ last.calls # <<>>) =>
          (rec.tableName # "" /\ last.calls[1].stmt.table = rec.tableName)
    /\ (last.op \in Mutation /\ origin.op = "Select" /\ ~(origin.table /\ origin.pk)) =>
          (last.err \in {ErrTableNotSet, ErrPrimaryKeyNotSet} /\ last.calls = <<>>)

C3_Witness ==
    /\ last.op = "Save" /\ origin.op = "Select" /\ origin.table /\ ~origin.pk
    /\ Fields(rec) # {} /\ last.err = ErrPrimaryKeyNotSet

C5_SelectCarriesContext ==
    last.op = "Select" =>
        \A i \in 1..Len(last.out) :
            LET ctx == ApplyOptions(sessionContext, last.arg.options)
            IN /\ last.out[i].tableName = ctx.tableName
               /\ last.out[i].pk = ctx.pk
               /\ last.out[i].autoIncrement = ctx.autoIncrement

\* C8: a Save that reaches the executor names every field of the Record
\* exactly once in SET (key fields included) and the primary-key fields, in
\* declared order, in WHERE; it binds |fields| + |key| arguments: the value
\* of the i-th SET field at i, then the key fields' values in declared order.
C8_SaveStatement ==
    (last.op = "Save" /\ last.calls # <<>>) =>
        LET stmt == last.calls[1].stmt
            args == last.calls[1].args
            n == Cardinality(Fields(rec))
        IN /\ Len(last.calls) = 1
           /\ stmt.verb = "UPDATE" /\ stmt.table = rec.tableName /\ stmt.limit = 1
           /\ Len(stmt.cols) = n /\ Range(stmt.cols) = Fields(rec)
           /\ stmt.where = rec.pk
           /\ Len(args) = n + Len(rec.pk)
           /\ \A i \in 1..n : args[i] = rec.values[stmt.cols[i]]
           /\ \A j \in 1..Len(rec.pk) : args[n + j] = rec.values[rec.pk[j]]

C8_Witness ==
    /\ last.op = "Save" /\ last.calls # <<>>
    /\ rec.pk = <<"grp", "id">> /\ Fields(rec) = Names
    /\ last.calls[1].stmt.cols = <<"name", "id", "grp">>

\* C9: Create of a Record without table name fails with TableNotSet and
\* makes no Exec call; otherwise it makes one Exec call, an INSERT that names
\* every field of the Record exactly once, has one placeholder per field and
\* binds at i the value of the i-th named column, also for a Record without
\* fields and whether or not a primary key is declared.
C9_CreateStatement ==
    [][last'.op = "Create" =>
        IF rec.tableName = ""
        THEN last'.err = ErrTableNotSet /\ last'.calls = <<>>
        ELSE LET stmt == last'.calls[1].stmt
                 args == last'.calls[1].args
                 n == Cardinality(Fields(rec))
             IN /\ Len(last'.calls) = 1
                /\ last'.err # ErrTableNotSet
                /\ stmt.verb = "INSERT" /\ stmt.table = rec.tableName
                /\ Len(stmt.cols) = n /\ Range(stmt.cols) = Fields(rec)
                /\ stmt.marks = n /\ Len(args) = n
                /\ \A i \in 1..n : args[i] = rec.values[stmt.cols[i]]]_vars

C9_Witness ==
    /\ last.op = "Create" /\ Len(last.calls) = 1 /\ rec.pk = <<>>
    /\ last.calls[1].stmt.cols = <<"name", "id">>
    /\ last.calls[1].args = <<Bytes(Text3), NilBytes>>

\* the executor failed while serving the call
Failed(ans) == ans.fail \/ ans.cut

\* C17 (as stated): Select always makes one executor call, Create, Save and
\* Delete at most one.  When the executor fails, the operation returns the
\* executor's error, having made the one call only; Select returns no
\* Record; the Record the caller holds and the executor are as before.  When
\* the executor does not fail the operation returns no error: also a Create
\* whose generated identifier cannot be read, which leaves the Record as it
\* was.
C17_ExecutorErrors ==
    [][last'.op \in {"Select", "Create", "Save", "Delete"} =>
          /\ Len(last'.calls) <= 1
          /\ last'.op = "Select" => Len(last'.calls) = 1
          /\ (last'.calls # <<>> /\ Failed(last'.arg.ans)) =>
                /\ last'.err = ErrBackend
                /\ last'.out = <<>>
                /\ rec' = rec /\ db' = db
          /\ (last'.calls # <<>> /\ ~Failed(last'.arg.ans)) => last'.err = NoError
          /\ last'.calls = <<>> => last'.err \in LibraryErrors
          /\ (last'.op = "Create" /\ last'.calls # <<>>
                 /\ ~last'.arg.ans.fail /\ ~last'.arg.ans.hasId) => rec' = rec]_vars

\* C17 (the divergence): a Select whose rows break off returns the rows read
\* so far and no error.
C17_Witness ==
    /\ last.op = "Select" /\ last.arg.ans.cut
    /\ last.err = NoError /\ Len(last.out) = 1
    /\ Len(Query(db, last.arg.query, <<>>, Success).rows) = 2

\* C17 (the part that holds): the same for failures of the query call and
\* of the exec call themselves.
C17_CallFailuresReturned ==
    [][last'.op \in {"Select", "Create", "Save", "Delete"} =>
          /\ Len(last'.calls) <= 1
          /\ last'.op = "Select" => Len(last'.calls) = 1
          /\ (last'.calls # <<>> /\ last'.arg.ans.fail) =>
                /\ last'.err = ErrBackend
                /\ last'.out = <<>>
                /\ rec' = rec /\ db' = db
          /\ (last'.calls # <<>> /\ ~last'.arg.ans.fail) => last'.err = NoError
          /\ last'.calls = <<>> => last'.err \in LibraryErrors
          /\ (last'.op = "Create" /\ last'.calls # <<>>
                 /\ ~last'.arg.ans.fail /\ ~last'.arg.ans.hasId) => rec' = rec]_vars

\* C18: Create writes the generated identifier into the primary-key field
\* only for a Record with a single primary-key field and auto-increment
\* whose primary-key field has no entry when Create is called; a Record
\* whose primary-key field has an entry keeps that entry's value.
C18_CreateKeepsPresetKey ==
    [][last'.op = "Create" =>
          IF Len(rec.pk) = 1 /\ rec.autoIncrement /\ rec.pk[1] \notin Fields(rec)
          THEN \A n \in Fields(rec) : rec'.values[n] = rec.values[n]
          ELSE rec' = rec]_vars

\* C18 (the divergence): the INSERT bound the caller's value of id, and the
\* Record holds the generated identifier in id afterwards.
C18_Witness ==
    /\ last.op = "Create" /\ last.err = NoError /\ last.arg.ans.hasId
    /\ rec.pk = <<"id">> /\ rec.autoIncrement
    /\ last.calls[1].stmt.cols = <<"id">> /\ last.calls[1].args = <<Bytes(Text1)>>
    /\ rec.values["id"] = Bytes(<<"7">>)

\* the WHERE arguments of the statement of a call
WhereArgs(call) ==
    SubSeq(call.args, Len(call.args) - Len(call.stmt.where) + 1, Len(call.args))

\* C19: Save and Delete of a Record with a table name and a primary key
\* return PrimaryKeyInvalid exactly when a primary-key field has no entry; a
\* primary-key field whose entry is null counts as present: the call makes
\* one Exec call, and the WHERE argument of each key field is the field's
\* value, null for a null one.
C19_NullKeyIsPresent ==
    (last.op \in Mutation /\ rec.tableName # "" /\ rec.pk # <<>>) =>
        /\ last.err = ErrPrimaryKeyInvalid <=>
              \E i \in 1..Len(rec.pk) : rec.pk[i] \notin Fields(rec)
        /\ (\A i \in 1..Len(rec.pk) : rec.pk[i] \in Fields(rec)) =>
              /\ Len(last.calls) = 1
              /\ Len(WhereArgs(last.calls[1])) = Len(rec.pk)
              /\ \A i \in 1..Len(rec.pk) :
                    /\ WhereArgs(last.calls[1])[i] = rec.values[rec.pk[i]]
                    /\ rec.values[rec.pk[i]].null => WhereArgs(last.calls[1])[i] = NilBytes

C19_Witness ==
    /\ last.op = "Save" /\ last.err = NoError /\ rec.pk = <<"grp", "id">>
    /\ Fields(rec) = Names /\ rec.values["id"] = NilBytes /\ ~rec.values["grp"].null
    /\ WhereArgs(last.calls[1]) = <<Bytes(Text2), NilBytes>>

\* C15: Set, Create, Save and Delete, successful or failing, leave the
\* Record's table name, primary-key field list and auto-increment flag as
\* they were, so they stay as NewRecord or Select made them; Set changes
\* the entry of the named field only; Save and Delete leave the whole Record
\* as it was; Create changes at most the entry of the single primary-key
\* field.
C15_MetadataFrame ==
    [][/\ last'.op \in {"Set", "Create", "Save", "Delete"} =>
             /\ rec'.tableName = rec.tableName
             /\ rec'.pk = rec.pk
             /\ rec'.autoIncrement = rec.autoIncrement
       /\ last'.op = "Set" =>
             /\ Fields(rec') = Fields(rec) \cup {last'.arg.name}
             /\ \A n \in Fields(rec) \ {last'.arg.name} : rec'.values[n] = rec.values[n]
       /\ last'.op \in Mutation => rec' = rec
       /\ last'.op = "Create" =>
             \/ rec' = rec
             \/ /\ Len(rec.pk) = 1 /\ Fields(rec') = Fields(rec) \cup {rec.pk[1]}
                /\ \A n \in Fields(rec) \ {rec.pk[1]} : rec'.values[n] = rec.values[n]]_vars

C15_Witness ==
    /\ last.op = "Create" /\ last.err = NoError /\ last.arg.ans.id = Num(FALSE, <<"7">>)
    /\ rec.tableName = TableName /\ rec.pk = <<"id">> /\ rec.autoIncrement
    /\ Fields(rec) = Names /\ rec.values["id"] = Bytes(<<"7">>)
    /\ origin.op = "NewRecord"

(***************************************************************************)
(* SpecDB: the Session over the table executor.                            *)
(***************************************************************************)
Text4 == <<"4">>

\* The tables the executor starts with: the first MaxRows rows of RowsA and
\* of RowsB.  id alone identifies the first two rows of RowsA; in RowsB only
\* (grp, id) tells the first two rows apart, and the third repeats the first.
RowsA == <<Row(Bytes(Text1), Bytes(Text1), Bytes(Text3)),
           Row(Bytes(Text2), Bytes(Text1), NilBytes),
           Row(Bytes(Text2), Bytes(Text2), Bytes(Text3))>>
RowsB == <<Row(Bytes(Text1), Bytes(Text1), Bytes(Text3)),
           Row(Bytes(Text1), Bytes(Text2), Bytes(Text3)),
           Row(Bytes(Text1), Bytes(Text1), Bytes(Text3))>>

First(rows) == SubSeq(rows, 1, IF MaxRows < Len(rows) THEN MaxRows ELSE Len(rows))

AllColumns == <<"id", "grp", "name">>

TableOptionLists ==
    {OptionList(<<>>, TableName, <<"id">>, FALSE),
     OptionList(<<>>, TableName, <<"grp", "id">>, FALSE)}

TableSelectInputs ==
    {<<ReadQuery(AllColumns, AllColumns, <<>>), o, Success>> : o \in TableOptionLists}
    \cup {<<ReadQuery(AllColumns, AllColumns, <<"id">>),
            OptionList(<<ArgsOption(<<Bytes(Text2)>>)>>, TableName, <<"id">>, FALSE), Success>>,
          <<ReadQuery(AllColumns, AllColumns, <<>>), <<>>, Failure>>}

TableSetInputs ==
    {<<"id", GoBytes(Bytes(Text2))>>, <<"grp", GoString(Text1)>>,
     <<"name", GoString(Text4)>>}

InitDB ==
    /\ rec = NewRecord(<<>>)
    /\ db \in {[table |-> TRUE, rows |-> rows] : rows \in {First(RowsA), First(RowsB)}}
    /\ last = Last("NewRecord", Arg(<<>>, NoAnswer, "", 0), NoError, <<>>, <<>>, NoVal)
    /\ origin = Origin("NewRecord", <<>>)

NextDB ==
    \/ \E options \in TableOptionLists : CallNewRecord(options)
    \/ \E in \in TableSetInputs : CallSet(in[1], in[2])
    \/ \E in \in TableSelectInputs, i \in 1..MaxRows : CallSelect(in[1], in[2], in[3], i)
    \/ \E order \in Orders(Fields(rec)) : CallSave(order, Success)
    \/ \E ans \in {Failure, Success} : CallDelete(ans)

SpecDB == InitDB /\ [][NextDB]_vars

\* the rows of the table that the Record's key values select
KeyRows(d, record) ==
    {i \in 1..Len(d.rows) : Matches(d.rows[i], record.pk, ValuesOf(record, record.pk))}

\* a later Select of the rows with the Record's key
SelectByKey(d, record) ==
    Select(ReadQuery(AllColumns, AllColumns, record.pk),
           <<ArgsOption(ValuesOf(record, record.pk))>>, d, Success)

\* the text handed to Set
TextOf(value) == IF value.type = "string" THEN value.s ELSE value.b.bytes

\* C6: over the table executor, for a Record that Select returned with
\* TableOption and PrimaryKeyOption (single or composite key) and whose key
\* identifies one row: after Set(f, v) on a non-key field, the Record's other
\* fields still holding the row's values, a successful Save makes a later
\* Select of the row return v for f, leaves the row's other columns as they
\* were and leaves every other row unchanged.
C6_SetSaveSelect ==
    [][(/\ last.op = "Set" /\ last'.op = "Save" /\ last'.err = NoError
        /\ origin.op = "Select" /\ origin.table /\ origin.pk
        /\ last.arg.name \notin Range(rec.pk)
        /\ Cardinality(KeyRows(db, rec)) = 1
        /\ \A i \in KeyRows(db, rec) : \A c \in Fields(rec) \ {last.arg.name} :
              rec.values[c] = db.rows[i][c])
       => (/\ Len(db'.rows) = Len(db.rows)
           /\ \A i \in KeyRows(db, rec) :
                 /\ db'.rows[i][last.arg.name] = Bytes(TextOf(last.arg.value))
                 /\ \A c \in Columns \ {last.arg.name} : db'.rows[i][c] = db.rows[i][c]
           /\ \A j \in (1..Len(db.rows)) \ KeyRows(db, rec) : db'.rows[j] = db.rows[j]
           /\ Len(SelectByKey(db', rec).records) = 1
           /\ String(SelectByKey(db', rec).records[1], last.arg.name)
                 = [err |-> NoError, val |-> TextOf(last.arg.value)])]_vars

C6_Witness ==
    /\ last.op = "Save" /\ last.err = NoError
    /\ origin.op = "Select" /\ rec.pk = <<"grp", "id">>
    /\ Cardinality(KeyRows(db, rec)) = 1
    /\ \A i \in KeyRows(db, rec) : db.rows[i] = Row(Bytes(Text1), Bytes(Text2), Bytes(Text4))
    /\ \E j \in 1..Len(db.rows) : db.rows[j] = Row(Bytes(Text1), Bytes(Text1), Bytes(Text3))

\* C7: Delete of a Record with a table name and all its primary-key fields
\* present makes one Exec call: DELETE on the table, its WHERE clause naming
\* the key fields in declared order, bounded to one row, bound to exactly the
\* key fields' values in that order (no other field contributes), also for
\* a Record that NewRecord built; when the call succeeds and the key matched
\* one row, a later Select of that row returns no row.
C7_DeleteStatement ==
    [][(/\ last'.op = "Delete"
        /\ rec.tableName # "" /\ rec.pk # <<>>
        /\ \A i \in 1..Len(rec.pk) : rec.pk[i] \in Fields(rec))
       => (/\ Len(last'.calls) = 1
           /\ last'.calls[1].stmt = Statement("DELETE", rec.tableName, <<>>, 0, rec.pk, 1)
           /\ Len(last'.calls[1].args) = Len(rec.pk)
           /\ \A i \in 1..Len(rec.pk) : last'.calls[1].args[i] = rec.values[rec.pk[i]]
           /\ (last'.err = NoError /\ Cardinality(KeyRows(db, rec)) = 1) =>
                 (/\ SelectByKey(db', rec).records = <<>>
                  /\ Len(db'.rows) = Len(db.rows) - 1))]_vars

C7_Witness ==
    /\ last.op = "Delete" /\ last.err = NoError /\ Len(last.calls) = 1
    /\ origin.op = "NewRecord" /\ rec.pk = <<"grp", "id">> /\ Fields(rec) = Names
    /\ Len(db.rows) = MaxRows - 1
    /\ SelectByKey(db, rec).records = <<>>

\* the rows of d that differ from the row of e at the same place
Changed(d, e) == {i \in 1..Len(d.rows) : i > Len(e.rows) \/ d.rows[i] # e.rows[i]}

\* rows with one of them taken out
Without(rows, i) == SubSeq(rows, 1, i - 1) \o SubSeq(rows, i + 1, Len(rows))

\* C16: over the table executor, which honours the row bound, a successful
\* Save changes at most one row and removes none, a successful Delete removes
\* at most one row and changes none, also when the primary-key values match
\* several rows; a failing call changes nothing; every UPDATE and DELETE the
\* Session sends carries the bound of one row.
C16_AtMostOneRow ==
    [][last'.op \in Mutation =>
          /\ \A i \in 1..Len(last'.calls) :
                last'.calls[i].stmt.verb \in {"UPDATE", "DELETE"} /\ last'.calls[i].stmt.limit = 1
          /\ last'.err # NoError => db' = db
          /\ (last'.op = "Save" /\ last'.err = NoError) =>
                (Len(db'.rows) = Len(db.rows) /\ Cardinality(Changed(db, db')) <= 1)
          /\ (last'.op = "Delete" /\ last'.err = NoError) =>
                \/ db'.rows = db.rows
                \/ \E i \in 1..Len(db.rows) : db'.rows = Without(db.rows, i)]_vars

C16_Witness ==
    /\ last.op = "Save" /\ last.err = NoError /\ rec.pk = <<"id">>
    /\ Cardinality(KeyRows(db, rec)) >= 2
    /\ Cardinality({i \in 1..Len(db.rows) : db.rows[i]["name"] = Bytes(Text4)}) = 1

\* the rows whose column f is not v, in order
Others(rows, f, v) == SelectSeq(rows, LAMBDA r : r[f] # v)

\* C20: over the table executor, when Set has changed a primary-key field f
\* of a Record that Select returned to k', a Save or Delete that reaches the
\* executor binds k' as the WHERE argument of f, Save binds k' as the SET
\* argument of f as well, and a successful call leaves every row whose f is
\* not k' as it was: the row the Record was read from, whose f is the old
\* value, is neither updated nor deleted.
C20_WhereBoundAtCall ==
    [][(/\ last.op = "Set" /\ origin.op = "Select"
        /\ last.arg.name \in Range(rec.pk)
        /\ last'.op \in Mutation /\ last'.calls # <<>>)
       => LET f == last.arg.name
              k == SetCell(last.arg.value)
              call == last'.calls[1]
          IN /\ rec.values[f] = k
             /\ \A j \in 1..Len(rec.pk) : rec.pk[j] = f => WhereArgs(call)[j] = k
             /\ last'.op = "Save" =>
                   /\ f \in Range(call.stmt.cols)
                   /\ \A i \in 1..Len(call.stmt.cols) :
                         call.stmt.cols[i] = f => call.args[i] = k
             /\ last'.err = NoError => Others(db'.rows, f, k) = Others(db.rows, f, k)]_vars

C20_Witness ==
    /\ last.op = "Save" /\ last.err = NoError /\ origin.op = "Select"
    /\ rec.pk = <<"id">> /\ rec.values["id"] = Bytes(Text2)
    /\ WhereArgs(last.calls[1]) = <<Bytes(Text2)>>
    /\ Len(db.rows) >= 2
    /\ db.rows[1] = Row(Bytes(Text1), Bytes(Text1), Bytes(Text3))
    /\ db.rows[2] = Row(Bytes(Text2), Bytes(Text1), Bytes(Text3))

(***************************************************************************)
(* SpecText: Set and the typed getters on one Record, over texts that      *)
(* cover the shapes strconv distinguishes.  Each text comes with the       *)
(* number it denotes as an int64 and as a uint64, if it denotes one.       *)
(***************************************************************************)
Number(neg, mag) == [ok |-> TRUE, val |-> Num(neg, mag)]
NoNumber == [ok |-> FALSE, val |-> Zero]
TextCase(text, int, uint) == [text |-> text, int |-> int, uint |-> uint]

TextCases ==
    {TextCase(<<"6", "6", "6">>,
              Number(FALSE, <<"6", "6", "6">>),
              Number(FALSE, <<"6", "6", "6">>)),
     TextCase(<<>>,
              NoNumber,
              NoNumber),
     TextCase(<<"0">>,
              Number(FALSE, <<"0">>),
              Number(FALSE, <<"0">>)),
     TextCase(<<"a", "b", "c">>,
              NoNumber,
              NoNumber),
     TextCase(<<"1", ".", "5">>,
              NoNumber,
              NoNumber),
     TextCase(<<"-", "1">>,
              Number(TRUE, <<"1">>),
              NoNumber),
     TextCase(<<"+", "5">>,
              Number(FALSE, <<"5">>),
              NoNumber),
     TextCase(<<"0", "0", "7">>,
              Number(FALSE, <<"7">>),
              Number(FALSE, <<"7">>)),
     TextCase(<<"-", "0">>,
              Number(FALSE, <<"0">>),
              NoNumber),
     TextCase(<<"9", "2", "2", "3", "3", "7", "2", "0", "3", "6", "8", "5", "4", "7", "7", "5", "8", "0", "7">>,
              Number(FALSE, <<"9", "2", "2", "3", "3", "7", "2", "0", "3", "6", "8", "5", "4", "7", "7", "5", "8", "0", "7">>),
              Number(FALSE, <<"9", "2", "2", "3", "3", "7", "2", "0", "3", "6", "8", "5", "4", "7", "7", "5", "8", "0", "7">>)),
     TextCase(<<"9", "2", "2", "3", "3", "7", "2", "0", "3", "6", "8", "5", "4", "7", "7", "5", "8", "0", "8">>,
              NoNumber,
              Number(FALSE, <<"9", "2", "2", "3", "3", "7", "2", "0", "3", "6", "8", "5", "4", "7", "7", "5", "8", "0", "8">>)),
     TextCase(<<"-", "9", "2", "2", "3", "3", "7", "2", "0", "3", "6", "8", "5", "4", "7", "7", "5", "8", "0", "8">>,
              Number(TRUE, <<"9", "2", "2", "3", "3", "7", "2", "0", "3", "6", "8", "5", "4", "7", "7", "5", "8", "0", "8">>),
              NoNumber),
     TextCase(<<"-", "9", "2", "2", "3", "3", "7", "2", "0", "3", "6", "8", "5", "4", "7", "7", "5", "8", "0", "9">>,
              NoNumber,
              NoNumber),
     TextCase(<<"1", "8", "4", "4", "6", "7", "4", "4", "0", "7", "3", "7", "0", "9", "5", "5", "1", "6", "1", "5">>,
              NoNumber,
              Number(FALSE, <<"1", "8", "4", "4", "6", "7", "4", "4", "0", "7", "3", "7", "0", "9", "5", "5", "1", "6", "1", "5">>)),
     TextCase(<<"1", "8", "4", "4", "6", "7", "4", "4", "0", "7", "3", "7", "0", "9", "5", "5", "1", "6", "1", "6">>,
              NoNumber,
              NoNumber)}

TextNames == {"id", "name"}

\* integers of the int64 range: zero, a negative one, the two ends
TextInts ==
    {Zero, Num(TRUE, <<"1">>), Num(FALSE, <<"6", "6", "6">>),
     Num(FALSE, MaxInt64Mag), Num(TRUE, MinInt64Mag)}

TextValues ==
    {GoString(c.text) : c \in TextCases}
    \cup {GoNil, GoBytes(NilBytes), GoBytes(Bytes(<<"6", "6", "6">>)), GoBytes(Bytes(<<>>))}
    \cup {GoInt64(n) : n \in TextInts}

InitText ==
    /\ rec = NewRecord(<<>>)
    /\ db = [table |-> FALSE, rows |-> <<>>]
    /\ last = Last("NewRecord", Arg(<<>>, NoAnswer, "", 0), NoError, <<>>, <<>>, NoVal)
    /\ origin = Origin("NewRecord", <<>>)

NextText ==
    \/ \E name \in TextNames, value \in TextValues : CallSet(name, value)
    \/ \E name \in TextNames : CallString(name)
    \/ \E name \in TextNames : CallInt64(name)
    \/ \E name \in TextNames : CallUInt64(name)

SpecText == InitText /\ [][NextText]_vars

Getters == {"String", "Int64", "UInt64"}

\* the case of a text
CaseOf(text) == CHOOSE c \in TextCases : c.text = text

\* C10: a typed getter returns InvalidColumn exactly when the name has no
\* entry, NullValue exactly when the entry is null, and otherwise the text
\* (String) or the number the text denotes in base 10; when the text denotes
\* no integer of the target type (a negative number for UInt64, a value above
\* the int64 maximum for Int64) it returns the parse error, which is none of
\* the library's errors.
C10_TypedGetters ==
    last.op \in Getters =>
        LET name == last.arg.name
            present == name \in Fields(rec)
        IN /\ last.err = ErrInvalidColumn <=> ~present
           /\ last.err = ErrNullValue <=> (present /\ rec.values[name].null)
           /\ (present /\ ~rec.values[name].null) =>
                LET text == rec.values[name].bytes
                    want == IF last.op = "Int64" THEN CaseOf(text).int ELSE CaseOf(text).uint
                IN IF last.op = "String"
                   THEN last.err = NoError /\ last.val.text = text
                   ELSE IF want.ok
                        THEN last.err = NoError /\ last.val.num = want.val
                        ELSE last.err \notin LibraryErrors \cup {NoError}

C10_Witness ==
    /\ last.op = "Int64" /\ last.arg.name = "id" /\ "id" \in Fields(rec)
    /\ rec.values["id"] = Bytes(MinInt64Mag)
    /\ last.err = ErrRange

(***************************************************************************)
(* SpecSelect: Select over queries that rename, swap and repeat column     *)
(* names, on the stub and on the table, and reads of the Record taken.     *)
(***************************************************************************)
ShapedQueries ==
    {ReadQuery(AllColumns, AllColumns, <<>>),
     ReadQuery(<<"name", "id">>, <<"id", "name">>, <<>>),
     ReadQuery(<<"id", "name">>, <<"key", "label">>, <<>>),
     ReadQuery(<<"id", "grp", "name">>, <<"name", "n", "name">>, <<>>),
     ReadQuery(<<>>, <<>>, <<>>)}

ShapedSelectInputs ==
    {<<q, o, Success>> : q \in ShapedQueries,
                         o \in {<<>>, OptionList(<<>>, TableName, <<"id">>, FALSE)}}
    \cup {<<ReadQuery(AllColumns, AllColumns, <<"grp">>),
            OptionList(<<ArgsOption(<<Bytes(Text1)>>)>>, TableName, <<"grp", "id">>, FALSE),
            Success>>,
          <<ReadQuery(AllColumns, AllColumns, <<>>), <<>>, Failure>>}

ShapedNames == Names \cup {"key", "label", "n"}

InitSelect ==
    /\ rec = NewRecord(<<>>)
    /\ db \in {[table |-> FALSE, rows |-> StubRows], [table |-> TRUE, rows |-> First(RowsA)]}
    /\ last = Last("NewRecord", Arg(<<>>, NoAnswer, "", 0), NoError, <<>>, <<>>, NoVal)
    /\ origin = Origin("NewRecord", <<>>)

NextSelect ==
    \/ \E in \in ShapedSelectInputs, i \in 1..MaxRows : CallSelect(in[1], in[2], in[3], i)
    \/ \E name \in ShapedNames : CallString(name)

SpecSelect == InitSelect /\ [][NextSelect]_vars

\* the raw value of a scanned column, as a cell
RawCell(col) == IF col.type = "nil" THEN NilBytes ELSE col.b

\* the last column of the result that reports the name
LastNamed(cols, name) ==
    CHOOSE j \in 1..Len(cols) : cols[j] = name /\ \A k \in (j + 1)..Len(cols) : cols[k] # name

\* C13: a successful Select returns one Record per row of the executor's
\* result, in the result's order; the Fields of each are exactly the column
\* names the executor reports (the names of aliases, not of the columns
\* behind them), and the value of each name is the raw value, NULL included,
\* of the column so named in that row (of the last one, when the result
\* repeats a name); String of the Record taken reads that value.
C13_SelectFields ==
    /\ (last.op = "Select" /\ last.err = NoError) =>
          LET res == Query(db, last.arg.query,
                           ApplyOptions(sessionContext, last.arg.options).args, last.arg.ans)
          IN /\ Len(last.out) = Len(res.rows)
             /\ \A i \in 1..Len(res.rows) :
                   /\ Fields(last.out[i]) = Range(res.cols)
                   /\ \A name \in Range(res.cols) :
                         last.out[i].values[name]
                            = RawCell(res.rows[i][LastNamed(res.cols, name)])
             /\ last.arg.index \in 1..Len(last.out) => rec = last.out[last.arg.index]
    /\ (last.op = "String" /\ last.arg.name \in Fields(rec) /\ ~rec.values[last.arg.name].null) =>
          (last.err = NoError /\ last.val.text = rec.values[last.arg.name].bytes)

C13_Witness ==
    /\ last.op = "Select" /\ last.err = NoError /\ Len(last.out) = 2
    /\ last.arg.query.names = <<"id", "name">> /\ last.arg.query.proj = <<"name", "id">>
    /\ last.out[1].values = [n \in {"id", "name"} |-> IF n = "id" THEN Bytes(Text3) ELSE Bytes(Text1)]
    /\ last.out[2].values["id"] = NilBytes

(***************************************************************************)
(* SpecOptions: NewRecord and Select called with every sequence of at most *)
(* MaxOptions options, options of one kind repeated and kinds in any       *)
(* order.  The initial Record is the one NewRecord returns for any such    *)
(* sequence; Select reads the table by id.                                 *)
(***************************************************************************)
RECURSIVE Seqs(_, _)
Seqs(S, n) ==
    IF n = 0 THEN {<<>>}
    ELSE Seqs(S, n - 1) \cup {Append(s, a) : s \in Seqs(S, n - 1), a \in S}

RecordOptions ==
    {TableOption(TableName), TableOption("u"),
     PrimaryKeyOption(<<"id">>), PrimaryKeyOption(<<"grp", "id">>),
     ArgsOption(<<Bytes(Text1)>>), ArgsOption(<<Bytes(Text2)>>), AutoIncrementOption}

SelectOptions ==
    {TableOption(TableName), PrimaryKeyOption(<<"id">>),
     ArgsOption(<<Bytes(Text1)>>), ArgsOption(<<Bytes(Text2)>>)}

QueryById == ReadQuery(AllColumns, AllColumns, <<"id">>)

InitOptions ==
    \E options \in Seqs(RecordOptions, MaxOptions) :
       /\ rec = NewRecord(options)
       /\ db = [table |-> TRUE, rows |-> First(RowsA)]
       /\ last = Last("NewRecord", Arg(options, NoAnswer, "", 0), NoError, <<>>, <<>>, NoVal)
       /\ origin = Origin("NewRecord", options)

NextOptions ==
    \E options \in Seqs(SelectOptions, MaxOptions) : CallSelect(QueryById, options, Success, 1)

SpecOptions == InitOptions /\ [][NextOptions]_vars

\* the last option of a kind in a sequence (0: none)
LastOf(options, kind) ==
    IF \E i \in 1..Len(options) : options[i].kind = kind
    THEN CHOOSE i \in 1..Len(options) :
            options[i].kind = kind /\ \A j \in (i + 1)..Len(options) : options[j].kind # kind
    ELSE 0

\* the default context with each field set by the last option of its kind
LastWins(options) ==
    [args |-> IF LastOf(options, "ArgsOption") = 0 THEN <<>>
              ELSE options[LastOf(options, "ArgsOption")].args,
     pk |-> IF LastOf(options, "PrimaryKeyOption") = 0 THEN <<>>
            ELSE options[LastOf(options, "PrimaryKeyOption")].pk,
     tableName |-> IF LastOf(options, "TableOption") = 0 THEN ""
                   ELSE options[LastOf(options, "TableOption")].name,
     autoIncrement |-> LastOf(options, "AutoIncrementOption") # 0]

\* the rearrangements of a sequence that keep options of one kind in their order
Reorderings(options) ==
    {[i \in 1..Len(options) |-> options[p[i]]] :
        p \in {q \in Orders(1..Len(options)) :
                  \A i, j \in 1..Len(options) :
                     (i < j /\ options[q[i]].kind = options[q[j]].kind) => q[i] < q[j]}}

\* C14: the context that NewRecord and Select make of a sequence of options
\* is the default context with the table name, primary key and args of the
\* last option of each kind (the default where there is none) and
\* auto-increment set when AutoIncrementOption is passed; it is the same for
\* every rearrangement that keeps options of one kind in their order.  The
\* Record NewRecord returns carries that context; Select runs the query with
\* that context's args and returns what it returns for the options in
\* canonical order.
C14_OptionsLastWins ==
    LET options == last.arg.options
        ctx == LastWins(options)
    IN /\ ApplyOptions(sessionContext, options) = ctx
       /\ \A o \in Reorderings(options) : ApplyOptions(sessionContext, o) = ctx
       /\ last.op = "NewRecord" =>
             rec = [values |-> NoValues, pk |-> ctx.pk, tableName |-> ctx.tableName,
                    autoIncrement |-> ctx.autoIncrement]
       /\ last.op = "Select" =>
             /\ last.err = Query(db, last.arg.query, ctx.args, last.arg.ans).err
             /\ last.out = Select(last.arg.query,
                                   <<ArgsOption(ctx.args), TableOption(ctx.tableName),
                                     PrimaryKeyOption(ctx.pk)>>, db, last.arg.ans).records
             /\ \A i \in 1..Len(last.out) :
                   last.out[i].tableName = ctx.tableName /\ last.out[i].pk = ctx.pk

C14_Witness ==
    /\ last.op = "Select" /\ last.err = NoError
    /\ last.arg.options = <<ArgsOption(<<Bytes(Text1)>>), TableOption(TableName),
                             ArgsOption(<<Bytes(Text2)>>)>>
    /\ Len(last.out) = 1 /\ last.out[1].values["id"] = Bytes(Text2)
    /\ rec.tableName = TableName

\* a value that is a text: a string, or a byte sequence that is not nil
HasText(value) == value.type = "string" \/ (value.type = "bytes" /\ ~value.b.null)

\* C11: Set(f, x) of a text x (the empty one included), given as a string or
\* as a byte sequence, on a name with or without entry makes String(f) return
\* x without error; every call that is not a Set on f leaves what String(f)
\* returns as it was, so the read yields the most recent Set on f after any
\* Sets on f and on other fields; the String call returns exactly that.
C11_SetStringRoundTrip ==
    [][/\ \A g \in TextNames :
             IF last'.op = "Set" /\ last'.arg.name = g
             THEN HasText(last'.arg.value) =>
                     String(rec', g) = [err |-> NoError, val |-> TextOf(last'.arg.value)]
             ELSE String(rec', g) = String(rec, g)
       /\ last'.op = "String" =>
             /\ last'.err = String(rec, last'.arg.name).err
             /\ last'.val.text = String(rec, last'.arg.name).val]_vars

C11_Witness ==
    /\ last.op = "String" /\ last.arg.name = "id"
    /\ last.err = NoError /\ last.val.text = <<>>
    /\ "name" \in Fields(rec) /\ rec.values["name"] = Bytes(<<"a", "b", "c">>)

\* C12: Set(f, n) of an integer n of the int64 range (zero, negative, the
\* minimum, the maximum) makes Int64(f) return n without error.
C12_SetInt64RoundTrip ==
    (last.op = "Set" /\ last.arg.value.type = "int64") =>
        Int64(rec, last.arg.name) = [err |-> NoError, val |-> last.arg.value.n]

C12_Witness ==
    /\ last.op = "Set" /\ last.arg.value = GoInt64(Num(TRUE, MinInt64Mag))
    /\ Int64(rec, last.arg.name) = [err |-> NoError, val |-> Num(TRUE, MinInt64Mag)]
    /\ Cardinality(Fields(rec)) = 2

====
